---- MODULE Spec2Model ----
(***************************************************************************)
(* sqliteViewer: the main window (MyMainFrame) of a ROOT GUI over one      *)
(* SQLite file.  The state is the window's fields; every action is one     *)
(* GUI event handler run to completion (the event loop is single-threaded).*)
(* Strings are TLA+ strings; a table cell, a query, a view line and the    *)
(* CSV file are all strings.                                               *)
(***************************************************************************)
EXTENDS Integers, Sequences, FiniteSets, TLC

(***************************************************************************)
(* Bounds of the model.                                                    *)
(***************************************************************************)
\* submissions of the run-SQL handler explored by Spec
MaxBrowseSubmissions == 1
\* submissions explored by SpecQuery and SpecExport
MaxSubmissions == 2
\* submissions explored by SpecHistory (must exceed kMaxQueryHistory)
MaxHistorySubmissions == 12
\* plot requests explored by SpecPool (must exceed kMaxCanvases)
MaxPlots == 4
\* plot requests explored by SpecPlot
MaxDrawings == 1
\* blank (id -1) entries OnDimensionChanged may pile up in the Y picker,
\* in Spec and in SpecPlot
MaxBlankEntries == 2
MaxPlotBlankEntries == 1
\* the most samples in a column that is binned
MaxSamples == 5

(***************************************************************************)
(* Program constants.                                                      *)
(***************************************************************************)
kMaxCanvases == 3
kMaxQueryHistory == 10
\* int customId = 99999
customId == 99999
\* the field width of TString::Format("%-15s", ...)
kColumnWidth == 15

(***************************************************************************)
(* TString helpers.                                                        *)
(***************************************************************************)
CharAt(s, i) == SubSeq(s, i, i)

\* the character ToLower puts in place of c
LowerChar(c) ==
    CASE c = "A" -> "a" [] c = "B" -> "b" [] c = "C" -> "c" [] c = "D" -> "d"
      [] c = "E" -> "e" [] c = "F" -> "f" [] c = "G" -> "g" [] c = "H" -> "h"
      [] c = "I" -> "i" [] c = "J" -> "j" [] c = "K" -> "k" [] c = "L" -> "l"
      [] c = "M" -> "m" [] c = "N" -> "n" [] c = "O" -> "o" [] c = "P" -> "p"
      [] c = "Q" -> "q" [] c = "R" -> "r" [] c = "S" -> "s" [] c = "T" -> "t"
      [] c = "U" -> "u" [] c = "V" -> "v" [] c = "W" -> "w" [] c = "X" -> "x"
      [] c = "Y" -> "y" [] c = "Z" -> "z"
      [] OTHER -> c

RECURSIVE ToLower(_)
\* TString::ToLower: every upper-case letter replaced, nothing removed
ToLower(s) ==
    IF s = "" THEN ""
    ELSE LowerChar(CharAt(s, 1)) \o ToLower(SubSeq(s, 2, Len(s)))

\* TString::BeginsWith (exact comparison of the first Len(p) characters)
BeginsWith(s, p) == Len(s) >= Len(p) /\ SubSeq(s, 1, Len(p)) = p

\* TString::EndsWith
EndsWith(s, p) ==
    Len(s) >= Len(p) /\ SubSeq(s, Len(s) - Len(p) + 1, Len(s)) = p

RECURSIVE Spaces(_)
Spaces(n) == IF n <= 0 THEN "" ELSE " " \o Spaces(n - 1)

\* TString::Format("%-15s", s): left-justified, padded, never truncated
PadColumn(s) == s \o Spaces(kColumnWidth - Len(s))

(***************************************************************************)
(* TGComboBox, as the handlers use it: an ordered list of (id, label)      *)
(* entries, the id of the selected entry (-1: none, what GetSelected()     *)
(* returns then) and the title shown in the closed box.                    *)
(***************************************************************************)
EmptyCombo == [entries |-> <<>>, sel |-> -1, title |-> ""]

Entry(label, id) == [id |-> id, label |-> label]

CB_GetNumberOfEntries(cb) == Len(cb.entries)

CB_HasId(cb, id) == \E i \in 1..Len(cb.entries) : cb.entries[i].id = id

CB_FirstIndex(cb, id) ==
    CHOOSE i \in 1..Len(cb.entries) :
        /\ cb.entries[i].id = id
        /\ \A j \in 1..(i - 1) : cb.entries[j].id # id

CB_AddEntry(cb, label, id) ==
    [cb EXCEPT !.entries = Append(@, Entry(label, id))]

\* removes every entry whose id lies in from..to
CB_RemoveEntries(cb, from, to) ==
    [cb EXCEPT !.entries = SelectSeq(@, LAMBDA e : e.id < from \/ e.id > to),
               !.sel = IF @ >= from /\ @ <= to THEN -1 ELSE @]

\* removes the first entry with that id; a removed selection blanks the box
CB_RemoveEntry(cb, id) ==
    IF ~CB_HasId(cb, id) THEN cb
    ELSE LET i == CB_FirstIndex(cb, id)
         IN  [entries |-> SubSeq(cb.entries, 1, i - 1)
                          \o SubSeq(cb.entries, i + 1, Len(cb.entries)),
              sel     |-> IF cb.sel = id THEN -1 ELSE cb.sel,
              title   |-> IF cb.sel = id THEN "" ELSE cb.title]

\* selects the first entry with that id, when there is one
CB_Select(cb, id) ==
    IF ~CB_HasId(cb, id) THEN cb
    ELSE [cb EXCEPT !.sel = id,
                    !.title = cb.entries[CB_FirstIndex(cb, id)].label]

Labels(cb) == [i \in 1..Len(cb.entries) |-> cb.entries[i].label]
Ids(cb) == [i \in 1..Len(cb.entries) |-> cb.entries[i].id]

(***************************************************************************)
(* The files the dialogs can return and the databases behind them.         *)
(* TSQLServer is the embedded engine: Connect, GetTables, Query.           *)
(***************************************************************************)
NullDB == "NULL"        \* fDB == nullptr
ZombieDB == "ZOMBIE"    \* a TSQLServer with IsZombie()

\* "" is the dialog cancelled; missing.sqlite cannot be opened
OpenableFiles == {"a.sqlite", "b.sqlite"}
DialogFiles == {"", "a.sqlite", "b.sqlite", "missing.sqlite"}

Table(header, rows) == [header |-> header, rows |-> rows]

\* the catalog of each database, in GetTables order
Catalog(db) ==
    IF db = "a.sqlite" THEN <<"t", "e">>
    ELSE IF db = "b.sqlite" THEN <<"p", "Custom">>
    ELSE <<>>

TableContent(db, name) ==
    CASE db = "a.sqlite" /\ name = "t" ->
            Table(<<"a", "b">>, << <<"1", "2">> >>)
      [] db = "a.sqlite" /\ name = "e" ->
            Table(<<"c">>, <<>>)
      [] db = "b.sqlite" /\ name = "p" ->
            Table(<<"x", "y">>, << <<"1", "">>, <<"", "2">> >>)
      [] db = "b.sqlite" /\ name = "Custom" ->
            Table(<<"k">>, << <<"7">> >>)

NullResult == [ok |-> FALSE, header |-> <<>>, rows |-> <<>>]
Result(t) == [ok |-> TRUE, header |-> t.header, rows |-> t.rows]

RECURSIVE TrimLeft(_)
TrimLeft(s) ==
    IF s # "" /\ CharAt(s, 1) \in {" ", "\t", "\n"}
    THEN TrimLeft(SubSeq(s, 2, Len(s))) ELSE s

\* Form("SELECT * FROM \"%s\"", tableName.Data())
SelectAllQuery(tableName) == "SELECT * FROM \"" \o tableName \o "\""

\* TSQLServer::Query on a connected database: the engine skips leading
\* whitespace and ignores keyword case; a statement it cannot prepare
\* gives a null result, a SELECT without rows a result with no row.
EngineQuery(db, sql) ==
    LET stmt == ToLower(TrimLeft(sql))
        hits == {i \in 1..Len(Catalog(db)) :
                    stmt = ToLower(SelectAllQuery(Catalog(db)[i]))}
    IN  IF stmt = "select 1" THEN Result(Table(<<"1">>, << <<"1">> >>))
        ELSE IF stmt = "select 1 limit 0" THEN Result(Table(<<"1">>, <<>>))
        ELSE IF stmt = "select '\"'" THEN Result(Table(<<"'\"'">>, << <<"\"">> >>))
        ELSE IF hits # {}
             THEN Result(TableContent(db, Catalog(db)[CHOOSE i \in hits : TRUE]))
        ELSE NullResult

\* TSQLServer::Connect: the handle, or the outcomes of a failed open
Connect(file) ==
    IF file \in OpenableFiles THEN {file} ELSE {NullDB, ZombieDB}

IsOpen(db) == db \in OpenableFiles

(***************************************************************************)
(* The state: the fields of MyMainFrame, then what a handler did last.     *)
(***************************************************************************)
VARIABLES
    fDB,                  \* the database handle
    fDBPathLabel,         \* "Database: <path>"
    fTableDropdown,       \* the table picker
    fDataView,            \* the lines of the data view
    fSQLBox,              \* the text of the SQL box
    fCurrentTableHeader,  \* the stored result table: column names
    fCurrentTableData,    \* the stored result table: rows of cells
    fXColumnSelect,       \* the X column picker
    fYColumnSelect,       \* the Y column picker
    fYEnabled,            \* whether the Y picker is enabled
    fQueryHistory,        \* the query history, oldest first
    fQueryHistoryView,    \* the lines of the history view
    fPlotTypeBox,         \* the selected plot type: 1 histogram, 2 scatter, -1 none
    fCanvasQueue,         \* the open plot windows, oldest first
    fLastHist,            \* the 1D histogram held, or NoPlot
    fLastHist2D,          \* the 2D histogram held, or NoPlot
    canvasesMade,         \* how many plot windows were ever created
    submitted,            \* every string submitted to OnRunSQLClicked so far
    last,                 \* what the last handler did (see Quiet)
    crashed               \* the process died in a handler

vars == <<fDB, fDBPathLabel, fTableDropdown, fDataView, fSQLBox,
          fCurrentTableHeader, fCurrentTableData, fXColumnSelect,
          fYColumnSelect, fYEnabled, fQueryHistory, fQueryHistoryView,
          fPlotTypeBox, fCanvasQueue, fLastHist, fLastHist2D, canvasesMade,
          submitted, last, crashed>>

dbVars == <<fDB, fDBPathLabel>>
tableVars == <<fDataView, fCurrentTableHeader, fCurrentTableData,
               fXColumnSelect, fYColumnSelect>>
historyVars == <<fQueryHistory, fQueryHistoryView, submitted>>
plotVars == <<fPlotTypeBox, fCanvasQueue, fLastHist, fLastHist2D, canvasesMade>>

\* what a plot window shows: kind is "none", "h1", "h2", "scatter1" or
\* "scatter2"; points are the values filled or the (x, y) points set
NoPlot == [kind |-> "none", points |-> <<>>]

\* handler: its name; input: its argument; sent: the SQL strings handed to
\* fDB->Query, in order; msg: what it printed to stdout; prompt:
\* whether a save dialog was shown; path, csv: the file it wrote and the
\* characters written ("" when none); fault: "null" or "zombie" when it
\* called through such a handle; drawn: what it drew; closed: the window it
\* closed (0: none); peak: the most windows open at once while it ran
Quiet(handler, input) ==
    [handler |-> handler, input |-> input, sent |-> <<>>, msg |-> "",
     prompt |-> FALSE, path |-> "", csv |-> "", fault |-> "none",
     drawn |-> NoPlot, closed |-> 0, peak |-> 0]

(***************************************************************************)
(* The constructor.  It returns before the window is mapped when no file   *)
(* is chosen or the file cannot be opened, so the states a user can act on *)
(* start with an open database, its catalog in the table picker (ids       *)
(* GetNumberOfEntries()+1), nothing loaded and the Y picker disabled.      *)
(***************************************************************************)
RECURSIVE AddTables(_, _, _)
\* while ((row = tables->Next())) fTableDropdown->AddEntry(name, id++)
AddTables(cb, names, id) ==
    IF names = <<>> THEN cb
    ELSE AddTables(CB_AddEntry(cb, Head(names), id), Tail(names), id + 1)

Init ==
    /\ fDB \in OpenableFiles
    /\ fDBPathLabel = "Database: " \o fDB
    /\ fTableDropdown = AddTables(EmptyCombo, Catalog(fDB), 1)
    /\ fDataView = <<>>
    /\ fSQLBox = ""
    /\ fCurrentTableHeader = <<>>
    /\ fCurrentTableData = <<>>
    /\ fXColumnSelect = EmptyCombo
    /\ fYColumnSelect = EmptyCombo
    /\ fYEnabled = FALSE
    /\ fQueryHistory = <<>>
    /\ fQueryHistoryView = <<>>
    /\ fPlotTypeBox = -1
    /\ fCanvasQueue = <<>>
    /\ fLastHist = NoPlot
    /\ fLastHist2D = NoPlot
    /\ canvasesMade = 0
    /\ submitted = <<>>
    /\ last = Quiet("constructor", fDB)
    /\ crashed = FALSE

(***************************************************************************)
(* LoadQueryResultsToTable (sqliteViewer.C).  ts is the part of the state  *)
(* it works on: header, data, view and the two column pickers.             *)
(***************************************************************************)
TableState ==
    [header |-> fCurrentTableHeader, data |-> fCurrentTableData,
     view |-> fDataView, x |-> fXColumnSelect, y |-> fYColumnSelect]

RECURSIVE FormatLine(_)
\* line += TString::Format("%-15s", val.Data()) for every field
FormatLine(cells) ==
    IF cells = <<>> THEN ""
    ELSE PadColumn(Head(cells)) \o FormatLine(Tail(cells))

\* RemoveEntries(0, n); AddEntry(" ", -1); Select(-1); RemoveEntry(-1)
ResetColumnSelect(cb) ==
    LET emptied == CB_RemoveEntries(cb, 0, CB_GetNumberOfEntries(cb))
    IN  CB_RemoveEntry(CB_Select(CB_AddEntry(emptied, " ", -1), -1), -1)

RECURSIVE AddColumns(_, _)
\* for each col: entryId = fXColumnSelect->GetNumberOfEntries() + 1, added
\* to both pickers.  xy is [x |-> X picker, y |-> Y picker].
AddColumns(xy, header) ==
    IF header = <<>> THEN xy
    ELSE LET entryId == CB_GetNumberOfEntries(xy.x) + 1
         IN  AddColumns([x |-> CB_AddEntry(xy.x, Head(header), entryId),
                         y |-> CB_AddEntry(xy.y, Head(header), entryId)],
                        Tail(header))

LoadQueryResultsToTable(ts, result) ==
    IF ~result.ok THEN ts
    ELSE LET rowLines == [i \in 1..Len(result.rows) |-> FormatLine(result.rows[i])]
             xy == AddColumns([x |-> ResetColumnSelect(ts.x),
                               y |-> ResetColumnSelect(ts.y)], result.header)
         IN  [header |-> result.header,
              data   |-> result.rows,
              view   |-> <<FormatLine(result.header), " ">> \o rowLines,
              x      |-> xy.x,
              y      |-> xy.y]

\* fDB->Query(sql) through the handle the window holds.  A null handle is a
\* call through a null pointer; a zombie server refuses every query.
QueryFault(db) ==
    IF db = NullDB THEN "null" ELSE IF db = ZombieDB THEN "zombie" ELSE "none"

Query(db, sql) == IF IsOpen(db) THEN EngineQuery(db, sql) ELSE NullResult

\* a call through a null fDB is undefined: the handler gets no further, and
\* the process dies or the event loop goes on with the state as it was then
CrashOutcomes(fault) == IF fault = "null" THEN BOOLEAN ELSE {FALSE}

(***************************************************************************)
(* OnTableSelected (gui_handlers.inline.h:10).  The body, for the picker   *)
(* dd as the selection left it: used by the handler and by the Selected    *)
(* signal that fTableDropdown->Select emits inside OnRunSQLClicked.        *)
(***************************************************************************)
\* TableSelected without the return for the title "Custom"
TableSelectedNoSentinel(db, dd, ts) ==
    LET query == SelectAllQuery(dd.title)
        cleared == [ts EXCEPT !.view = <<>>]
    IN  IF db = NullDB
        THEN [ts |-> cleared, sent |-> <<>>, fault |-> "null"]
        ELSE [ts |-> LoadQueryResultsToTable(cleared, Query(db, query)),
              sent |-> <<query>>, fault |-> QueryFault(db)]

TableSelected(db, dd, ts) ==
    IF dd.title = "Custom"
    THEN [ts |-> ts, sent |-> <<>>, fault |-> "none"]
    ELSE LET query == SelectAllQuery(dd.title)
             cleared == [ts EXCEPT !.view = <<>>]
         IN  IF db = NullDB
             THEN [ts |-> cleared, sent |-> <<>>, fault |-> "null"]
             ELSE [ts |-> LoadQueryResultsToTable(cleared, Query(db, query)),
                   sent |-> <<query>>, fault |-> QueryFault(db)]

SetTableState(ts) ==
    /\ fCurrentTableHeader' = ts.header
    /\ fCurrentTableData' = ts.data
    /\ fDataView' = ts.view
    /\ fXColumnSelect' = ts.x
    /\ fYColumnSelect' = ts.y

\* the user picks the i-th entry of the table picker
OnTableSelected(i) ==
    /\ ~crashed
    /\ i \in 1..Len(fTableDropdown.entries)
    /\ LET dd == CB_Select(fTableDropdown, fTableDropdown.entries[i].id)
           done == TableSelected(fDB, dd, TableState)
       IN  /\ fTableDropdown' = dd
           /\ SetTableState(done.ts)
           /\ last' = [Quiet("OnTableSelected", dd.title)
                         EXCEPT !.sent = done.sent, !.fault = done.fault]
           /\ crashed' \in CrashOutcomes(done.fault)
    /\ UNCHANGED <<dbVars, fSQLBox, fYEnabled, historyVars, plotVars>>

(***************************************************************************)
(* OnRunSQLClicked (gui_handlers.inline.h:138).                            *)
(***************************************************************************)
\* lower.BeginsWith("select"), lower being userQuery.ToLower()
IsSelect(userQuery) == BeginsWith(ToLower(userQuery), "select")

\* PushHistory with the eviction at the wrong end (pop_back for pop_front)
PushHistoryPopBack(history, userQuery) ==
    LET pushed == Append(history, userQuery)
    IN  IF Len(pushed) > kMaxQueryHistory
        THEN SubSeq(pushed, 1, Len(pushed) - 1) ELSE pushed

\* PushHistory moved behind the SELECT check: a rejected string is not kept
PushHistoryAfterCheck(history, userQuery) ==
    IF ~IsSelect(userQuery) THEN history
    ELSE LET pushed == Append(history, userQuery)
         IN  IF Len(pushed) > kMaxQueryHistory THEN Tail(pushed) ELSE pushed

\* push_back, then pop_front when the size exceeds kMaxQueryHistory
PushHistory(history, userQuery) ==
    LET pushed == Append(history, userQuery)
    IN  IF Len(pushed) > kMaxQueryHistory THEN Tail(pushed) ELSE pushed

\* FindEntry("Custom"): an entry of that name
CB_FindEntry(cb, name) ==
    \E i \in 1..Len(cb.entries) : cb.entries[i].label = name

\* lines 175-186, up to the Select that emits Selected(customId)
SelectCustom(dd) ==
    LET cleaned == IF CB_FindEntry(dd, "Custom")
                   THEN CB_RemoveEntry(dd, customId) ELSE dd
    IN  CB_Select(CB_AddEntry(cleaned, "Custom", customId), customId)

\* the user has typed userQuery into the SQL box and clicks Run
OnRunSQLClicked(userQuery) ==
    /\ ~crashed
    /\ fQueryHistory' = PushHistory(fQueryHistory, userQuery)
    /\ fQueryHistoryView' = fQueryHistory'
    /\ submitted' = Append(submitted, userQuery)
    /\ UNCHANGED <<dbVars, fYEnabled, plotVars>>
    /\ IF ~IsSelect(userQuery)
       THEN /\ fDataView' = <<"Only SELECT queries are allowed.">>
            /\ fSQLBox' = userQuery
            /\ UNCHANGED <<fCurrentTableHeader, fCurrentTableData,
                           fXColumnSelect, fYColumnSelect, fTableDropdown>>
            /\ last' = Quiet("OnRunSQLClicked", userQuery)
            /\ crashed' = FALSE
       ELSE IF fDB = NullDB
       THEN /\ fSQLBox' = userQuery
            /\ UNCHANGED <<tableVars, fTableDropdown>>
            /\ last' = [Quiet("OnRunSQLClicked", userQuery)
                          EXCEPT !.fault = "null"]
            /\ crashed' \in CrashOutcomes("null")
       ELSE LET result == Query(fDB, userQuery)
            IN  IF ~result.ok
                THEN /\ fDataView' = <<"Query failed or returned no results.">>
                     /\ fSQLBox' = userQuery
                     /\ UNCHANGED <<fCurrentTableHeader, fCurrentTableData,
                                    fXColumnSelect, fYColumnSelect,
                                    fTableDropdown>>
                     /\ last' = [Quiet("OnRunSQLClicked", userQuery)
                                   EXCEPT !.sent = <<userQuery>>,
                                          !.fault = QueryFault(fDB)]
                     /\ crashed' = FALSE
                ELSE LET loaded == LoadQueryResultsToTable(TableState, result)
                         dd == SelectCustom(fTableDropdown)
                         done == TableSelected(fDB, dd, loaded)
                     IN  /\ SetTableState(done.ts)
                         /\ fTableDropdown' = CB_RemoveEntry(dd, customId)
                         /\ fSQLBox' = ""
                         /\ last' = [Quiet("OnRunSQLClicked", userQuery)
                                       EXCEPT !.sent = <<userQuery>> \o done.sent,
                                              !.fault = done.fault]
                         /\ crashed' = FALSE

(***************************************************************************)
(* OnChangeFile (gui_handlers.inline.h:91): file is what the dialog gave.  *)
(***************************************************************************)
OnChangeFile(file) ==
    /\ ~crashed
    /\ crashed' = FALSE
    /\ UNCHANGED <<fSQLBox, fCurrentTableHeader, fCurrentTableData,
                   fXColumnSelect, fYColumnSelect, fYEnabled, historyVars,
                   plotVars>>
    /\ last' = Quiet("OnChangeFile", file)
    /\ IF file = ""
       THEN UNCHANGED <<dbVars, fTableDropdown, fDataView>>
       ELSE \E db \in Connect(file) :
              /\ fDB' = db
              /\ IF ~IsOpen(db)
                 THEN /\ fDataView' = <<"Failed to open selected database.">>
                      /\ UNCHANGED <<fDBPathLabel, fTableDropdown>>
                 ELSE /\ fDBPathLabel' = "Database: " \o file
                      /\ fTableDropdown' =
                            AddTables(CB_RemoveEntries(fTableDropdown, 0,
                                        CB_GetNumberOfEntries(fTableDropdown)),
                                      Catalog(db), 1)
                      /\ fDataView' = <<>>

(***************************************************************************)
(* OnExportCSVClicked (gui_handlers.inline.h:34): chosen is the name the   *)
(* save dialog gave ("" when cancelled), writable whether it opens.        *)
(***************************************************************************)
RECURSIVE CsvCellsTrailingComma(_, _)
\* CsvCells with the separator test off by one (i < size for i < size - 1)
CsvCellsTrailingComma(cells, k) ==
    IF k > Len(cells) THEN ""
    ELSE "\"" \o cells[k] \o "\"" \o "," \o CsvCellsTrailingComma(cells, k + 1)

RECURSIVE CsvCells(_, _)
\* for (i = k; i < size; ++i) { out << "\"" << c[i] << "\""; if (i < size - 1) out << ","; }
CsvCells(cells, k) ==
    IF k > Len(cells) THEN ""
    ELSE "\"" \o cells[k] \o "\""
         \o (IF k < Len(cells) THEN "," ELSE "")
         \o CsvCells(cells, k + 1)

RECURSIVE CsvRows(_, _)
\* for (row : fCurrentTableData) { cells; out << "\n"; }
CsvRows(rows, k) ==
    IF k > Len(rows) THEN ""
    ELSE CsvCells(rows[k], 1) \o "\n" \o CsvRows(rows, k + 1)

\* everything written to the stream, lines 56-68
CsvText(header, data) == CsvCells(header, 1) \o "\n" \o CsvRows(data, 1)

\* if (!path.EndsWith(".csv")) path += ".csv"
CsvPath(chosen) == IF EndsWith(chosen, ".csv") THEN chosen ELSE chosen \o ".csv"

\* ExportRefused testing the header for the rows
ExportRefusedByHeader(header, data) == header = <<>>

\* if (fCurrentTableData.empty())
ExportRefused(header, data) == data = <<>>

OnExportCSVClicked(chosen, writable) ==
    /\ ~crashed
    /\ UNCHANGED <<dbVars, fTableDropdown, fSQLBox, tableVars, fYEnabled,
                   historyVars, plotVars, crashed>>
    /\ last' =
          IF ExportRefused(fCurrentTableHeader, fCurrentTableData)
          THEN [Quiet("OnExportCSVClicked", chosen)
                  EXCEPT !.msg = "No displayed table data to export."]
          ELSE IF chosen = ""
          THEN [Quiet("OnExportCSVClicked", chosen) EXCEPT !.prompt = TRUE]
          ELSE IF ~writable
          THEN [Quiet("OnExportCSVClicked", chosen)
                  EXCEPT !.prompt = TRUE,
                         !.msg = "Failed to open file for writing: "
                                 \o CsvPath(chosen)]
          ELSE [Quiet("OnExportCSVClicked", chosen)
                  EXCEPT !.prompt = TRUE,
                         !.path = CsvPath(chosen),
                         !.csv = CsvText(fCurrentTableHeader, fCurrentTableData),
                         !.msg = "CSV export complete: " \o CsvPath(chosen)]

(***************************************************************************)
(* OnDimensionChanged (gui_handlers.inline.h:193).  maxBlank bounds the     *)
(* blank entries repeated 1D selections add.                               *)
(***************************************************************************)
BlankEntries(cb) == Len(SelectSeq(cb.entries, LAMBDA e : e.id = -1))

OnDimensionChanged(dim, maxBlank) ==
    /\ ~crashed
    /\ dim = 1 => BlankEntries(fYColumnSelect) < maxBlank
    /\ IF dim = 1
       THEN /\ fYEnabled' = FALSE
            /\ fYColumnSelect' = CB_Select(CB_AddEntry(fYColumnSelect, "", -1), -1)
       ELSE /\ fYEnabled' = TRUE
            /\ fYColumnSelect' = CB_RemoveEntry(fYColumnSelect, -1)
    /\ last' = Quiet("OnDimensionChanged", dim)
    /\ UNCHANGED <<dbVars, fTableDropdown, fSQLBox, fDataView,
                   fCurrentTableHeader, fCurrentTableData, fXColumnSelect,
                   historyVars, plotVars, crashed>>

(***************************************************************************)
(* The pickers the user sets without a handler running: the X and Y column *)
(* pickers and the plot type box ("Histogram" 1, "Scatter" 2).             *)
(***************************************************************************)
UserSelectX(i) ==
    /\ ~crashed
    /\ i \in 1..Len(fXColumnSelect.entries)
    /\ fXColumnSelect' = CB_Select(fXColumnSelect, fXColumnSelect.entries[i].id)
    /\ last' = Quiet("UserSelectX", i)
    /\ UNCHANGED <<dbVars, fTableDropdown, fSQLBox, fDataView,
                   fCurrentTableHeader, fCurrentTableData, fYColumnSelect,
                   fYEnabled, historyVars, plotVars, crashed>>

\* a disabled picker does not open
UserSelectY(i) ==
    /\ ~crashed
    /\ fYEnabled
    /\ i \in 1..Len(fYColumnSelect.entries)
    /\ fYColumnSelect' = CB_Select(fYColumnSelect, fYColumnSelect.entries[i].id)
    /\ last' = Quiet("UserSelectY", i)
    /\ UNCHANGED <<dbVars, fTableDropdown, fSQLBox, fDataView,
                   fCurrentTableHeader, fCurrentTableData, fXColumnSelect,
                   fYEnabled, historyVars, plotVars, crashed>>

UserSelectPlotType(id) ==
    /\ ~crashed
    /\ id \in {1, 2}
    /\ fPlotTypeBox' = id
    /\ last' = Quiet("UserSelectPlotType", id)
    /\ UNCHANGED <<dbVars, fTableDropdown, fSQLBox, tableVars, fYEnabled,
                   historyVars, fCanvasQueue, fLastHist, fLastHist2D,
                   canvasesMade, crashed>>

(***************************************************************************)
(* PlotSelectedData (plot_utils.h:108) and OnPlotButtonClicked             *)
(* (gui_handlers.inline.h:208).                                            *)
(***************************************************************************)
DigitValue(c) ==
    CASE c = "0" -> 0 [] c = "1" -> 1 [] c = "2" -> 2 [] c = "3" -> 3
      [] c = "4" -> 4 [] c = "5" -> 5 [] c = "6" -> 6 [] c = "7" -> 7
      [] c = "8" -> 8 [] c = "9" -> 9
      [] OTHER -> -1

RECURSIVE AtofFrom(_, _, _)
AtofFrom(s, k, acc) ==
    IF k > Len(s) \/ DigitValue(CharAt(s, k)) < 0 THEN acc
    ELSE AtofFrom(s, k + 1, 10 * acc + DigitValue(CharAt(s, k)))

\* TString::Atof on an unsigned integer cell: the digits it starts with,
\* 0 when it starts with none
Atof(s) == AtofFrom(s, 1, 0)

\* row.size() > index with a size_t on the left: a negative int index
\* converts to a value no size exceeds
SizeExceeds(size, index) == index >= 0 /\ size > index

\* !row[index].IsNull(), evaluated only when the size test passed
CellValid(row, index) == SizeExceeds(Len(row), index) /\ row[index + 1] # ""

RECURSIVE XData(_, _, _)
\* if (xValid) xData.push_back(row[xIndex].Atof()), rows k..
XData(tableData, xIndex, k) ==
    IF k > Len(tableData) THEN <<>>
    ELSE (IF CellValid(tableData[k], xIndex)
          THEN <<Atof(tableData[k][xIndex + 1])>> ELSE <<>>)
         \o XData(tableData, xIndex, k + 1)

RECURSIVE YData(_, _, _)
\* if (yIndex >= 0 && yValid) yData.push_back(row[yIndex].Atof()), rows k..
YData(tableData, yIndex, k) ==
    IF k > Len(tableData) THEN <<>>
    ELSE (IF yIndex >= 0 /\ CellValid(tableData[k], yIndex)
          THEN <<Atof(tableData[k][yIndex + 1])>> ELSE <<>>)
         \o YData(tableData, yIndex, k + 1)

\* yIndex < 0 || yData.size() != xData.size()
OneDimensional(xData, yData, yIndex) == yIndex < 0 \/ Len(yData) # Len(xData)

(***************************************************************************)
(* The binning of the 1D histogram (plot_utils.h:20-51, 147-157), in exact *)
(* arithmetic on whole-number samples.  A quartile is held in quarters     *)
(* (4 * q), a bin width in tenths (10 * binWidth).                         *)
(***************************************************************************)
RECURSIVE SortInsert(_, _)
SortInsert(sorted, v) ==
    IF sorted = <<>> THEN <<v>>
    ELSE IF v <= Head(sorted) THEN <<v>> \o sorted
    ELSE <<Head(sorted)>> \o SortInsert(Tail(sorted), v)

RECURSIVE Sort(_)
\* std::sort(data.begin(), data.end())
Sort(data) ==
    IF data = <<>> THEN <<>> ELSE SortInsert(Sort(Tail(data)), Head(data))

\* GetQuartile(data, quarters / 4), in quarters
GetQuartile(data, quarters) ==
    IF data = <<>> THEN 0
    ELSE LET sorted == Sort(data)
             idx4 == quarters * (Len(data) - 1)
             idx_below == idx4 \div 4
             idx_above == IF idx4 % 4 = 0 THEN idx_below ELSE idx_below + 1
             fraction4 == idx4 - 4 * idx_below
         IN  IF idx_below = idx_above
             THEN 4 * sorted[idx_below + 1]
             ELSE sorted[idx_below + 1] * (4 - fraction4)
                  + sorted[idx_above + 1] * fraction4

RECURSIVE Pow10(_)
Pow10(k) == IF k <= 0 THEN 1 ELSE 10 * Pow10(k - 1)

\* rawBinWidth = 2 * iqr / cbrt(n) against a threshold of t20 / 20, by
\* cubes: with iqr = iqr4 / 4, rawBinWidth >= t20 / 20 exactly when
\* 1000 * iqr4^3 >= t20^3 * n
RawWidthReaches(iqr4, n, t20) ==
    IF t20 % 10 = 0
    THEN iqr4 * iqr4 * iqr4 >= (t20 \div 10) * (t20 \div 10) * (t20 \div 10) * n
    ELSE 1000 * iqr4 * iqr4 * iqr4 >= t20 * t20 * t20 * n

RECURSIVE ExponentFrom(_, _, _)
\* std::floor(std::log10(value)), searched upwards from e
ExponentFrom(iqr4, n, e) ==
    IF RawWidthReaches(iqr4, n, 2 * Pow10(e + 2))
    THEN ExponentFrom(iqr4, n, e + 1) ELSE e

\* RoundToNiceValue(2 * iqr / cbrt(n)), in tenths.  The least positive raw
\* width, 0.5 / cbrt(n), is above 0.1 for fewer than 125 samples, so the
\* exponent is searched from -1.
RoundToNiceValue(iqr4, n) ==
    IF iqr4 <= 0 THEN 10
    ELSE LET exponent == ExponentFrom(iqr4, n, -1)
             unit == Pow10(exponent + 1)
             niceBase ==
                 IF ~RawWidthReaches(iqr4, n, 3 * unit) THEN 1
                 ELSE IF ~RawWidthReaches(iqr4, n, 6 * unit) THEN 2
                 ELSE IF ~RawWidthReaches(iqr4, n, 14 * unit) THEN 5
                 ELSE 10
         IN  niceBase * unit

RECURSIVE MinElement(_)
MinElement(data) ==
    IF Len(data) = 1 THEN data[1]
    ELSE LET m == MinElement(Tail(data))
         IN  IF Head(data) < m THEN Head(data) ELSE m

RECURSIVE MaxElement(_)
MaxElement(data) ==
    IF Len(data) = 1 THEN data[1]
    ELSE LET m == MaxElement(Tail(data))
         IN  IF Head(data) > m THEN Head(data) ELSE m

\* binWidth = RoundToNiceValue(rawBinWidth); if (binWidth <= 0) binWidth = 1
BinWidthFallback(iqr4, n) ==
    LET binWidth == RoundToNiceValue(iqr4, n)
    IN  IF binWidth <= 0 THEN 10 ELSE binWidth

\* HistogramBins without the replacement of a bin count below 1
HistogramBinsNoMinimum(xData) ==
    LET iqr4 == GetQuartile(xData, 3) - GetQuartile(xData, 1)
        binWidth == BinWidthFallback(iqr4, Len(xData))
    IN  [binWidth |-> binWidth,
         nBins |-> (10 * (MaxElement(xData) - MinElement(xData))) \div binWidth]

\* lines 147-157 for at least one sample: the bin width, in tenths, and the
\* bin count
HistogramBins(xData) ==
    LET q1 == GetQuartile(xData, 1)
        q3 == GetQuartile(xData, 3)
        iqr4 == q3 - q1
        binWidth == BinWidthFallback(iqr4, Len(xData))
        minVal == MinElement(xData)
        maxVal == MaxElement(xData)
        nBins == (10 * (maxVal - minVal)) \div binWidth
    IN  [binWidth |-> binWidth, nBins |-> IF nBins < 1 THEN 10 ELSE nBins]

\* without a sample the raw width is 0 / cbrt(0), not a number, and
\* MinElement reads an empty array
NoBins == [binWidth |-> "nan", nBins |-> "undefined"]

\* what the new window shows
Drawing(tableData, xIndex, yIndex, plotType) ==
    LET xData == XData(tableData, xIndex, 1)
        yData == YData(tableData, yIndex, 1)
        n == Len(xData)
    IN  IF plotType = 1
        THEN IF OneDimensional(xData, yData, yIndex)
             THEN [kind |-> "h1", points |-> xData,
                   bins |-> IF n = 0 THEN NoBins ELSE HistogramBins(xData)]
             ELSE [kind |-> "h2",
                   points |-> [i \in 1..n |-> <<xData[i], yData[i]>>]]
        ELSE IF plotType = 2
        THEN IF OneDimensional(xData, yData, yIndex)
             THEN [kind |-> "scatter1",
                   points |-> [i \in 1..n |-> <<i - 1, xData[i]>>]]
             ELSE [kind |-> "scatter2",
                   points |-> [i \in 1..n |-> <<xData[i], yData[i]>>]]
        ELSE NoPlot

\* EvictOldest with > for >=: the pool grows to maxCanvases + 1
EvictOldestLate(canvasQueue, maxCanvases) ==
    IF Len(canvasQueue) > maxCanvases THEN Tail(canvasQueue) ELSE canvasQueue

\* lines 132-136: a full pool gives up its oldest window
EvictOldest(canvasQueue, maxCanvases) ==
    IF Len(canvasQueue) >= maxCanvases THEN Tail(canvasQueue) ELSE canvasQueue

\* the window closed by lines 132-136 (0: none)
ClosedCanvas(canvasQueue, maxCanvases) ==
    IF Len(canvasQueue) >= maxCanvases THEN Head(canvasQueue) ELSE 0

\* InvalidXSelection without the test for an absent selection
InvalidXSelectionUpperOnly(xIndex, header) == xIndex >= Len(header)

\* if (xIndex < 0 || xIndex >= fCurrentTableHeader.size())
InvalidXSelection(xIndex, header) == xIndex < 0 \/ xIndex >= Len(header)

OnPlotButtonClicked ==
    /\ ~crashed
    /\ UNCHANGED <<dbVars, fTableDropdown, fSQLBox, tableVars, fYEnabled,
                   historyVars, fPlotTypeBox, crashed>>
    /\ LET xIndex == fXColumnSelect.sel - 1
           yIndex == fYColumnSelect.sel - 1
           plotType == fPlotTypeBox
       IN  IF InvalidXSelection(xIndex, fCurrentTableHeader)
           THEN /\ last' = [Quiet("OnPlotButtonClicked", plotType)
                              EXCEPT !.msg = "Invalid X column selection.",
                                     !.peak = Len(fCanvasQueue)]
                /\ UNCHANGED <<fCanvasQueue, fLastHist, fLastHist2D,
                               canvasesMade>>
           ELSE LET kept == EvictOldest(fCanvasQueue, kMaxCanvases)
                    newCanvas == canvasesMade + 1
                    drawn == Drawing(fCurrentTableData, xIndex, yIndex, plotType)
                IN  /\ fCanvasQueue' = Append(kept, newCanvas)
                    /\ canvasesMade' = newCanvas
                    /\ fLastHist' = IF drawn.kind = "h1" THEN drawn ELSE NoPlot
                    /\ fLastHist2D' = IF drawn.kind = "h2" THEN drawn ELSE NoPlot
                    /\ last' = [Quiet("OnPlotButtonClicked", plotType)
                                  EXCEPT !.drawn = drawn,
                                         !.closed = ClosedCanvas(fCanvasQueue,
                                                                 kMaxCanvases),
                                         !.peak = Len(kept) + 1]

(***************************************************************************)
(* Specifications.                                                         *)
(***************************************************************************)
\* Spec runs every handler but the plot button, over one submission.
\* The narrower specifications run the handlers that write the state their
\* claims read, over longer runs; the handlers they leave out keep that
\* state UNCHANGED.
UserQueries ==
    {"select 1", "SELECT 1", "  select 1", "DROP TABLE x", "sel",
     "select 1 limit 0", "select x"}

ExportNames == {"", "out", "out.csv"}

\* one submission of each outcome: rows, no row, engine failure, rejection
BrowseQueries == {"select 1", "select 1 limit 0", "select x", "DROP TABLE x"}

Next ==
    \/ \E q \in BrowseQueries :
          Len(submitted) < MaxBrowseSubmissions /\ OnRunSQLClicked(q)
    \/ \E i \in 1..2 : OnTableSelected(i)
    \/ \E f \in DialogFiles : OnChangeFile(f)
    \/ \E n \in ExportNames, w \in BOOLEAN : OnExportCSVClicked(n, w)
    \/ \E d \in {1, 2} : OnDimensionChanged(d, MaxBlankEntries)

Spec == Init /\ [][Next]_vars

\* the run-SQL handler over every kind of submission, and file changes
NextQuery ==
    \/ \E q \in UserQueries :
          Len(submitted) < MaxSubmissions /\ OnRunSQLClicked(q)
    \/ \E f \in DialogFiles : OnChangeFile(f)

SpecQuery == Init /\ [][NextQuery]_vars

\* the run-SQL handler alone, past the capacity of the history
HistoryQueries == {"select 1", "DROP TABLE x"}

NextHistory ==
    \E q \in HistoryQueries :
        Len(submitted) < MaxHistorySubmissions /\ OnRunSQLClicked(q)

SpecHistory == Init /\ [][NextHistory]_vars

\* loading tables and exporting them; a table without rows is loaded by
\* selecting table e of a.sqlite
ExportQueries == {"select 1", "select '\"'", "select x", "DROP TABLE x"}

NextExport ==
    \/ \E q \in ExportQueries :
          Len(submitted) < MaxSubmissions /\ OnRunSQLClicked(q)
    \/ \E i \in 1..2 : OnTableSelected(i)
    \/ \E n \in ExportNames, w \in BOOLEAN : OnExportCSVClicked(n, w)

SpecExport == Init /\ [][NextExport]_vars

\* plot requests past the capacity of the window pool
NextPool ==
    \/ \E i \in 1..2 : OnTableSelected(i)
    \/ \E i \in 1..2 : UserSelectX(i)
    \/ \E t \in {1, 2} : UserSelectPlotType(t)
    \/ canvasesMade < MaxPlots /\ OnPlotButtonClicked

SpecPool == Init /\ [][NextPool]_vars

\* loading tables and plotting them, in one and two dimensions
NextPlot ==
    \/ \E i \in 1..2 : OnTableSelected(i)
    \/ \E i \in 1..2 : UserSelectX(i)
    \/ \E i \in 1..3 : UserSelectY(i)
    \/ \E t \in {1, 2} : UserSelectPlotType(t)
    \/ \E d \in {1, 2} : OnDimensionChanged(d, MaxPlotBlankEntries)
    \/ canvasesMade < MaxDrawings /\ OnPlotButtonClicked

SpecPlot == Init /\ [][NextPlot]_vars

\* the cells of the sample columns
SampleCells == {"0", "1", "9"}

\* the window after a one-column table of 2..MaxSamples samples was loaded
InitBins ==
    \E n \in 2..MaxSamples :
      \E rows \in [1..n -> {<<c>> : c \in SampleCells}] :
        LET ts == LoadQueryResultsToTable(
                      [header |-> <<>>, data |-> <<>>, view |-> <<>>,
                       x |-> EmptyCombo, y |-> EmptyCombo],
                      Result(Table(<<"x">>, rows)))
        IN  /\ fDB = "a.sqlite"
            /\ fDBPathLabel = "Database: " \o fDB
            /\ fTableDropdown = AddTables(EmptyCombo, Catalog(fDB), 1)
            /\ fDataView = ts.view
            /\ fSQLBox = ""
            /\ fCurrentTableHeader = ts.header
            /\ fCurrentTableData = ts.data
            /\ fXColumnSelect = ts.x
            /\ fYColumnSelect = ts.y
            /\ fYEnabled = FALSE
            /\ fQueryHistory = <<>>
            /\ fQueryHistoryView = <<>>
            /\ fPlotTypeBox = -1
            /\ fCanvasQueue = <<>>
            /\ fLastHist = NoPlot
            /\ fLastHist2D = NoPlot
            /\ canvasesMade = 0
            /\ submitted = <<>>
            /\ last = Quiet("LoadQueryResultsToTable", n)
            /\ crashed = FALSE

\* histograms and scatter plots of the sample column
NextBins ==
    \/ UserSelectX(1)
    \/ \E t \in {1, 2} : UserSelectPlotType(t)
    \/ canvasesMade < MaxDrawings /\ OnPlotButtonClicked

SpecBins == InitBins /\ [][NextBins]_vars

(***************************************************************************)
(* The claims.                                                             *)
(***************************************************************************)
RanSQL == last.handler = "OnRunSQLClicked"

\* a read query as the specification words it: ignoring letter case and
\* skipping leading whitespace, the string begins with "select"
BeginsWithSelectLoosely(userQuery) ==
    BeginsWith(ToLower(TrimLeft(userQuery)), "select")

\* C1: a string submitted through the run-SQL handler (on a valid handle)
\* is sent to the database if and only if, ignoring case and skipping
\* leading whitespace, it begins with "select"; every other string is
\* rejected with "Only SELECT queries are allowed." and nothing is sent.
C1_SelectGate ==
    (RanSQL /\ last.fault = "none") =>
        /\ (last.sent # <<>>) <=> BeginsWithSelectLoosely(last.input)
        /\ ~BeginsWithSelectLoosely(last.input) =>
              fDataView = <<"Only SELECT queries are allowed.">>

\* the last n elements of a sequence
LastN(seq, n) == SubSeq(seq, Len(seq) - n + 1, Len(seq))

\* C2: the query history holds at most 10 entries and equals the last
\* min(k, 10) submitted strings in submission order, k being the number of
\* submissions so far; the 11th submission evicts exactly the oldest entry.
C2_HistoryIsLastTen ==
    LET k == Len(submitted)
    IN  /\ Len(fQueryHistory) <= 10
        /\ fQueryHistory = LastN(submitted, IF k < 10 THEN k ELSE 10)
        /\ k = 11 => fQueryHistory = Tail(submitted)

\* eleven submissions, the first of which differs from the second
C2_Witness ==
    /\ Len(submitted) = 11
    /\ submitted[1] = "DROP TABLE x"
    /\ submitted[2] = "select 1"
    /\ fQueryHistory[1] = "select 1"

\* C3: every submission, a rejected non-SELECT and a SELECT that fails
\* included, is the last history entry once OnRunSQLClicked has run: the
\* string is appended before the check and before the query.
C3_SubmissionIsLastEntry ==
    RanSQL =>
        /\ fQueryHistory # <<>>
        /\ fQueryHistory[Len(fQueryHistory)] = last.input
        /\ fQueryHistoryView = fQueryHistory

\* a rejected string followed by a SELECT that failed, both in the history
C3_Witness ==
    /\ RanSQL
    /\ fQueryHistory = <<"DROP TABLE x", "select x">>
    /\ last.sent = <<"select x">>
    /\ fDataView = <<"Query failed or returned no results.">>

\* the k most recently created windows, oldest first
NewestCanvases(made, k) == [i \in 1..k |-> made - k + i]

\* C4: the plot window pool never holds more than 3 windows, not even
\* inside a plot request (the oldest is closed and removed before the new
\* window is created), and the windows kept are in creation order.
C4_PoolBounded ==
    /\ Len(fCanvasQueue) <= 3
    /\ last.peak <= 3
    /\ fCanvasQueue =
          NewestCanvases(canvasesMade, IF canvasesMade < 3 THEN canvasesMade ELSE 3)
    /\ last.closed # 0 => last.closed = fCanvasQueue[1] - 1

\* the fourth plot closed the first window
C4_Witness ==
    /\ canvasesMade = 4
    /\ fCanvasQueue = <<2, 3, 4>>
    /\ last.closed = 1

\* the ids 1..n
OneToN(n) == [i \in 1..n |-> i]

\* the options of a picker are exactly the stored columns, ids 1..n
MatchesHeader(cb) ==
    /\ Labels(cb) = fCurrentTableHeader
    /\ Ids(cb) = OneToN(Len(fCurrentTableHeader))

\* C5: after every handler the selectable options of the X and Y column
\* pickers are exactly the column names of the stored result table, in
\* header order with ids 1..n, with no extra entry (the Y picker offers
\* its options when it is enabled).
C5_PickersMatchHeader ==
    /\ MatchesHeader(fXColumnSelect)
    /\ fYEnabled => MatchesHeader(fYColumnSelect)

ChangedFile ==
    last.handler = "OnChangeFile" /\ last.input # "" /\ IsOpen(fDB)

\* C6: once OnChangeFile has opened a new database, the table picker lists
\* exactly its tables, the data view is empty, the stored result table is
\* empty and the column pickers have no options.
C6_FileChangeClearsTable ==
    ChangedFile =>
        /\ Labels(fTableDropdown) = Catalog(fDB)
        /\ fDataView = <<>>
        /\ fCurrentTableHeader = <<>>
        /\ fCurrentTableData = <<>>
        /\ fXColumnSelect.entries = <<>>
        /\ fYColumnSelect.entries = <<>>

\* C7: after a file that cannot be opened, no later table selection or
\* SELECT submission uses a null or zombie database handle.
C7_NoInvalidHandleUse == last.fault = "none" /\ ~crashed

\* C8: a submitted SELECT that fails in the engine or returns no row
\* leaves the data view showing "Query failed or returned no results." and
\* nothing else.
C8_EmptyResultIsSoftFailure ==
    (RanSQL /\ last.sent # <<>> /\ last.fault = "none") =>
        LET result == Query(fDB, last.input)
        IN  (~result.ok \/ result.rows = <<>>) =>
               fDataView = <<"Query failed or returned no results.">>

Exported == last.handler = "OnExportCSVClicked"

\* the export did nothing but print the message
ExportWasRefused ==
    /\ last.msg = "No displayed table data to export."
    /\ ~last.prompt
    /\ last.path = ""
    /\ last.csv = ""

\* C9 as claimed: with no table loaded the export only prints "No displayed
\* table data to export."; whenever a result table with a header is loaded
\* the export proceeds to the save prompt.
C9_ExportNeedsHeader ==
    Exported =>
        IF fCurrentTableHeader = <<>> THEN ExportWasRefused ELSE last.prompt

\* the fields of the window
programVars ==
    <<dbVars, fTableDropdown, fSQLBox, tableVars, fYEnabled, fQueryHistory,
      fQueryHistoryView, plotVars>>

\* C9 as amended: with no data row stored (no table loaded, or a table of
\* zero rows) the export only prints the message, shows no prompt, writes
\* no file and changes no field of the window; whenever a data row is
\* stored it proceeds to the prompt.
C9_ExportNeedsRows ==
    /\ [](Exported =>
            IF fCurrentTableData = <<>> THEN ExportWasRefused ELSE last.prompt)
    /\ [][(last'.handler = "OnExportCSVClicked" /\ fCurrentTableData = <<>>)
            => UNCHANGED programVars]_vars

\* an export refused for a loaded table that has a header and no row
C9_Witness ==
    /\ Exported
    /\ fCurrentTableHeader # <<>>
    /\ fCurrentTableData = <<>>
    /\ ExportWasRefused

RECURSIVE QuotedLine(_)
\* every cell double-quoted, joined by commas, ended by a newline
QuotedLine(cells) ==
    IF cells = <<>> THEN "\n"
    ELSE "\"" \o Head(cells) \o "\""
         \o (IF Len(cells) > 1 THEN "," ELSE "") \o QuotedLine(Tail(cells))

RECURSIVE QuotedLines(_)
QuotedLines(rows) ==
    IF rows = <<>> THEN "" ELSE QuotedLine(Head(rows)) \o QuotedLines(Tail(rows))

\* C10: the export writes the header line, then one line per data row in
\* table order, every cell double-quoted and comma-joined, every line ended
\* by a newline, nothing else and nothing escaped; header a, b with the row
\* 1, 2 gives "a","b"\n"1","2"\n.
C10_CsvExact ==
    (Exported /\ last.path # "") =>
        /\ last.csv = QuotedLine(fCurrentTableHeader)
                      \o QuotedLines(fCurrentTableData)
        /\ (fCurrentTableHeader = <<"a", "b">>
            /\ fCurrentTableData = << <<"1", "2">> >>)
              => last.csv = "\"a\",\"b\"\n\"1\",\"2\"\n"

\* the table a, b / 1, 2 was written
C10_Witness ==
    /\ Exported
    /\ last.path = "out.csv"
    /\ fCurrentTableHeader = <<"a", "b">>
    /\ last.csv = "\"a\",\"b\"\n\"1\",\"2\"\n"

\* C11: a click on the plot button while the X picker's selection is absent
\* or outside 1..(number of header columns) only prints "Invalid X column
\* selection.": it draws nothing, closes no window, creates none, and
\* leaves the window pool, the held histograms and the stored table as
\* they were.
C11_InvalidXAborts ==
    [][(/\ last'.handler = "OnPlotButtonClicked"
        /\ fXColumnSelect.sel \notin 1..Len(fCurrentTableHeader))
       => /\ last'.msg = "Invalid X column selection."
          /\ last'.drawn = NoPlot
          /\ last'.closed = 0
          /\ UNCHANGED <<fCanvasQueue, fLastHist, fLastHist2D, canvasesMade,
                         fCurrentTableHeader, fCurrentTableData>>]_vars

\* a plot request refused while a window is open and a histogram is held
C11_Witness ==
    /\ last.handler = "OnPlotButtonClicked"
    /\ last.msg = "Invalid X column selection."
    /\ fXColumnSelect.sel \notin 1..Len(fCurrentTableHeader)
    /\ fCanvasQueue # <<>>
    /\ fLastHist # NoPlot

\* the names the catalog of db lists
CatalogNames(db) == {Catalog(db)[i] : i \in 1..Len(Catalog(db))}

\* C12: selecting any table name of the open database's catalog sends
\* SELECT * FROM "<name>" and nothing else, and when that query succeeds
\* the stored result table is that table's columns and rows.
C12_TableSelectionLoads ==
    (/\ last.handler = "OnTableSelected"
     /\ IsOpen(fDB)
     /\ last.input \in CatalogNames(fDB))
    => /\ last.sent = <<SelectAllQuery(last.input)>>
       /\ EngineQuery(fDB, SelectAllQuery(last.input)).ok
            => /\ fCurrentTableHeader = TableContent(fDB, last.input).header
               /\ fCurrentTableData = TableContent(fDB, last.input).rows

\* userQuery passes the SELECT check and the engine returns a result
CustomQuerySucceeds(db, userQuery) ==
    IsOpen(db) /\ IsSelect(userQuery) /\ Query(db, userQuery).ok

\* C13 as stated: after a successful custom query the table picker lists no
\* entry named "Custom", the stored table is the query's result, and the
\* query was the only one sent.
C13_NoCustomEntry ==
    (RanSQL /\ CustomQuerySucceeds(fDB, last.input))
    => /\ ~CB_FindEntry(fTableDropdown, "Custom")
       /\ fCurrentTableHeader = Query(fDB, last.input).header
       /\ fCurrentTableData = Query(fDB, last.input).rows
       /\ last.sent = <<last.input>>

\* C13 as amended: a successful custom query leaves the table picker's
\* list as it was before the query (a catalog table named "Custom"
\* included), without the synthetic entry of id customId; the stored table
\* is the query's result, and the query is the only one sent: the
\* selection of the synthetic entry reloads no named table.
C13_PickerListKept ==
    [][(/\ last'.handler = "OnRunSQLClicked"
        /\ CustomQuerySucceeds(fDB, last'.input))
       => /\ fTableDropdown'.entries = fTableDropdown.entries
          /\ ~CB_HasId(fTableDropdown', customId)
          /\ fCurrentTableHeader' = Query(fDB, last'.input).header
          /\ fCurrentTableData' = Query(fDB, last'.input).rows
          /\ last'.sent = <<last'.input>>]_vars

\* a custom query ran on the database that has a table named "Custom",
\* after a named table had been loaded
C13_Witness ==
    /\ RanSQL
    /\ last.input = "select 1"
    /\ fDB = "b.sqlite"
    /\ Labels(fTableDropdown) = <<"p", "Custom">>
    /\ fTableDropdown.sel = -1
    /\ fCurrentTableHeader = <<"1">>
    /\ fCurrentTableData = << <<"1">> >>
    /\ Len(submitted) = 2

\* C14: for every 1D histogram of at least two samples the bin width is
\* above 0 and the bin count is at least 1, also when the interquartile
\* range is 0 and when all samples are equal.
C14_BinsPositive ==
    (last.drawn.kind = "h1" /\ Len(last.drawn.points) >= 2)
    => /\ last.drawn.bins.binWidth > 0
       /\ last.drawn.bins.nBins >= 1

\* a histogram of five samples whose interquartile range is 0 while the
\* samples differ
C14_Witness ==
    /\ last.drawn.kind = "h1"
    /\ Len(last.drawn.points) = 5
    /\ GetQuartile(last.drawn.points, 3) = GetQuartile(last.drawn.points, 1)
    /\ MaxElement(last.drawn.points) > MinElement(last.drawn.points)
    /\ last.drawn.bins = [binWidth |-> 10, nBins |-> 9]

\* the (x, y) of a row whose X and Y cells both hold a value
RowPoint(row, xIndex, yIndex) ==
    <<Atof(row[xIndex + 1]), Atof(row[yIndex + 1])>>

\* C15: every point of a 2D plot (2D histogram or 2D scatter plot) is the
\* X value and the Y value of one and the same row of the stored table.
C15_PointsPairRows ==
    (last.handler = "OnPlotButtonClicked"
        /\ last.drawn.kind \in {"h2", "scatter2"})
    => LET xIndex == fXColumnSelect.sel - 1
           yIndex == fYColumnSelect.sel - 1
       IN  \A i \in 1..Len(last.drawn.points) :
             \E k \in 1..Len(fCurrentTableData) :
                /\ CellValid(fCurrentTableData[k], xIndex)
                /\ CellValid(fCurrentTableData[k], yIndex)
                /\ last.drawn.points[i]
                      = RowPoint(fCurrentTableData[k], xIndex, yIndex)

\* the lines LoadQueryResultsToTable writes for a table
TableLines(header, data) ==
    <<FormatLine(header), " ">> \o [i \in 1..Len(data) |-> FormatLine(data[i])]

\* the views that show no table: empty, or one message
NoTableViews ==
    {<<>>, <<"Only SELECT queries are allowed.">>,
     <<"Query failed or returned no results.">>,
     <<"Failed to open selected database.">>}

\* C16: after every handler the data view and the stored result table
\* agree: the view shows the stored table's header and rows in order, or
\* the view shows no table and the stored table is empty.
C16_ViewMatchesStoredTable ==
    \/ fDataView = TableLines(fCurrentTableHeader, fCurrentTableData)
    \/ /\ fDataView \in NoTableViews
       /\ fCurrentTableHeader = <<>>
       /\ fCurrentTableData = <<>>

====
